---- MODULE Spec2Model ----
(***************************************************************************)
(* Payroll administration server (src/server.js over the record store of   *)
(* src/unnamed/part_001): the record store, the handlers that write it,    *)
(* and the payroll computation of GET /api/payroll.                        *)
(*                                                                         *)
(* Numbers.  A JavaScript number is modelled as an extended rational       *)
(* <<n, d>> in lowest terms with d >= 0: d > 0 is the finite value n/d,    *)
(* <<1, 0>> is Infinity, <<-1, 0>> is -Infinity and <<0, 0>> is NaN.       *)
(* Arithmetic on finite values is exact; the rounding error of IEEE        *)
(* doubles (below 1e-9 for the amounts modelled here) is not modelled.     *)
(*                                                                         *)
(* Strings.  A month string "YYYY-MM" is the sequence <<YYYY, MM>> and a   *)
(* date string "YYYY-MM-DD" the sequence <<YYYY, MM, DD>>: one element per *)
(* zero-padded field, so that the lexicographic order of the sequences is  *)
(* the order JavaScript's < gives the strings.  The empty string is the    *)
(* empty sequence.  A stored field that is null (an empty column of the    *)
(* database) is the empty sequence too: the operators applied to stored    *)
(* fields (parseFloat, ||, +, <, startsWith) are modelled with what they   *)
(* do on null.                                                             *)
(***************************************************************************)
EXTENDS Integers, Sequences, FiniteSets, Bags, TLC

VARIABLES
    employees,   \* employees table: employee id -> salary (daily wage)
    attendance,  \* attendance table: bag of attendance rows
    advances,    \* advances table: bag of advance rows
    payments,    \* payments table: bag of payment rows
    settings,    \* settings row (id = 1): [standardHours, slabHours]
    payroll,     \* the response to the last request when that was GET /api/payroll:
                 \* employee id -> statement; <<>> after any other request
    queryMonth,  \* the month of that request; <<>> after any other request
    statusCode,  \* the HTTP status of the last response where it is modelled
                 \* (200, 400 or 500); 0 otherwise
    inflight     \* the requests and store calls that have started and not
                 \* finished, with what each has read or done so far

vars == <<employees, attendance, advances, payments, settings, payroll, queryMonth,
          statusCode, inflight>>

store == <<employees, attendance, advances, payments, settings>>

(***************************************************************************)
(* JavaScript numbers                                                      *)
(***************************************************************************)
RECURSIVE Gcd(_, _)
Gcd(a, b) == IF b = 0 THEN a ELSE Gcd(b, a % b)

Abs(x) == IF x < 0 THEN -x ELSE x

Sign(x) == IF x < 0 THEN -1 ELSE IF x > 0 THEN 1 ELSE 0

NaN == <<0, 0>>

\* n/d in lowest terms; a zero denominator gives NaN or +-Infinity
Rat(n, d) ==
    IF d = 1 THEN <<n, 1>>
    ELSE IF d = 0 THEN <<Sign(n), 0>>
    ELSE LET g == Gcd(Abs(n), Abs(d))
         IN  IF d < 0 THEN <<(-n) \div g, (-d) \div g>>
             ELSE <<n \div g, d \div g>>

Num(n) == <<n, 1>>

IsNaN(x) == x = NaN

IsFinite(x) == x[2] > 0

\* x + y
Add(x, y) ==
    IF IsNaN(x) \/ IsNaN(y) THEN NaN
    ELSE IF ~IsFinite(x) /\ ~IsFinite(y) THEN (IF x = y THEN x ELSE NaN)
    ELSE IF ~IsFinite(x) THEN x
    ELSE IF ~IsFinite(y) THEN y
    ELSE Rat(x[1] * y[2] + y[1] * x[2], x[2] * y[2])

Neg(x) == <<-x[1], x[2]>>

\* x - y
Sub(x, y) == Add(x, Neg(y))

\* x * y
Mul(x, y) ==
    IF IsNaN(x) \/ IsNaN(y) THEN NaN
    ELSE IF IsFinite(x) /\ IsFinite(y) THEN Rat(x[1] * y[1], x[2] * y[2])
    ELSE <<Sign(x[1]) * Sign(y[1]), 0>>

\* x / y
Div(x, y) ==
    IF IsNaN(x) \/ IsNaN(y) THEN NaN
    ELSE IF ~IsFinite(x) /\ ~IsFinite(y) THEN NaN
    ELSE IF ~IsFinite(x) THEN <<x[1] * (IF y[1] < 0 THEN -1 ELSE 1), 0>>
    ELSE IF ~IsFinite(y) THEN Num(0)
    ELSE Rat(x[1] * y[2], x[2] * y[1])

\* x < y, x <= y, x > y (every comparison with NaN is false)
Lt(x, y) ==
    /\ ~IsNaN(x) /\ ~IsNaN(y)
    /\ IF IsFinite(x) /\ IsFinite(y) THEN x[1] * y[2] < y[1] * x[2]
       ELSE IF ~IsFinite(x) /\ ~IsFinite(y) THEN x[1] < y[1]
       ELSE IF ~IsFinite(x) THEN x[1] < 0
       ELSE y[1] > 0

Leq(x, y) == ~IsNaN(x) /\ ~IsNaN(y) /\ (x = y \/ Lt(x, y))

Gt(x, y) == Lt(y, x)

\* Math.round(x): the nearest integer, a tie going up
Round(x) ==
    IF ~IsFinite(x) THEN x
    ELSE Num((2 * x[1] + x[2]) \div (2 * x[2]))

\* x || 0 on a number: 0 and NaN are falsy
OrZero(x) == IF IsNaN(x) \/ x = Num(0) THEN Num(0) ELSE x

\* A stored field that is null is the empty sequence
NoValue == <<>>

\* parseFloat(v) of a stored field: a number (or numeric string) is its
\* value, null is NaN
ParseFloat(v) == IF Len(v) = 2 THEN v ELSE NaN

\* v is truthy: not null, not '', not 0, not NaN
Truthy(v) == v # NoValue /\ ~IsNaN(v) /\ v # Num(0)

\* the operand v of sum + v for a stored field: null converts to 0
ToNumber(v) == IF v = NoValue THEN Num(0) ELSE v

(***************************************************************************)
(* JavaScript strings of fixed-width fields                                *)
(***************************************************************************)
\* a < b on strings: lexicographic, a proper prefix is smaller
RECURSIVE StrLess(_, _)
StrLess(a, b) ==
    IF b = <<>> THEN FALSE
    ELSE IF a = <<>> THEN TRUE
    ELSE IF Head(a) # Head(b) THEN Head(a) < Head(b)
    ELSE StrLess(Tail(a), Tail(b))

\* s.startsWith(p)
StartsWith(s, p) == Len(s) >= Len(p) /\ SubSeq(s, 1, Len(p)) = p

\* date.substring(0, 7): the "YYYY-MM" fields of a date
Substring7(date) == SubSeq(date, 1, IF Len(date) < 2 THEN Len(date) ELSE 2)

\* `${month}-01`
FirstDay(month) == Append(month, 1)

\* v < s for a stored field v and a string s: null converts to 0 and the
\* string to NaN, and the comparison is false
FieldLess(v, s) == v # NoValue /\ StrLess(v, s)

(***************************************************************************)
(* Record store reads (src/unnamed/part_001)                               *)
(***************************************************************************)
\* supabase.from(table).select('*'): the rows of a table as an array, each
\* row as many times as the table holds it
RECURSIVE Rows(_)
Rows(table) ==
    IF table = EmptyBag THEN <<>>
    ELSE LET r == CHOOSE x \in BagToSet(table) : TRUE
         IN  <<r>> \o Rows(table (-) SetToBag({r}))

DefaultSettings == [standardHours |-> Rat(17, 2), slabHours |-> Num(6)]

\* getSettings: the settings row, the defaults when there is none
GetSettings(row) == IF row = NoValue THEN DefaultSettings ELSE row

(***************************************************************************)
(* GET /api/payroll (src/server.js)                                        *)
(***************************************************************************)
\* stdHours with a fallback of 8 hours
StdHoursOfEight(settingsData) ==
    ParseFloat(IF Truthy(settingsData.standardHours)
               THEN settingsData.standardHours ELSE Num(8))

\* parseFloat(settingsData.standardHours || 8.5)
StdHours(settingsData) ==
    ParseFloat(IF Truthy(settingsData.standardHours)
               THEN settingsData.standardHours ELSE Rat(17, 2))

\* parseFloat(settingsData.slabHours || 6)
SlabBase(settingsData) ==
    ParseFloat(IF Truthy(settingsData.slabHours)
               THEN settingsData.slabHours ELSE Num(6))

\* dailySalary with every hour of a slab day paid at the normal rate
NormalRateDailySalary(att, emp, stdHours, slabBase) ==
    Mul(Div(ParseFloat(emp.salary), stdHours), ParseFloat(att.workedHours))

\* dailySalary with the slab split applied whatever slabMode is
SlabAlwaysDailySalary(att, emp, stdHours, slabBase) ==
    LET workedHours == ParseFloat(att.workedHours)
        salary      == ParseFloat(emp.salary)
        normalRate  == Div(salary, stdHours)
    IN  IF Gt(workedHours, stdHours)
        THEN Add(Mul(normalRate, stdHours),
                 Mul(Div(salary, slabBase), Sub(workedHours, stdHours)))
        ELSE Mul(normalRate, workedHours)

\* dailySalary of one row in the current-month loop
DailySalary(att, emp, stdHours, slabBase) ==
    LET workedHours == ParseFloat(att.workedHours)
        salary      == ParseFloat(emp.salary)
        normalRate  == Div(salary, stdHours)
    IN  IF att.slabMode
        THEN IF Gt(workedHours, stdHours)
             THEN LET extraHours == Sub(workedHours, stdHours)
                      slabRate   == Div(salary, slabBase)
                  IN  Add(Mul(normalRate, stdHours), Mul(slabRate, extraHours))
             ELSE Mul(normalRate, workedHours)
        ELSE Mul(normalRate, workedHours)

\* the past-earnings dailySalary priced with the default settings
PastDailySalaryAtDefaults(att, emp, stdHours, slabBase) ==
    DailySalary(att, emp, Rat(17, 2), Num(6))

\* dailySalary of one row in the past-earnings loop
PastDailySalary(att, emp, stdHours, slabBase) ==
    LET workedHours == ParseFloat(att.workedHours)
        salary      == ParseFloat(emp.salary)
        normalRate  == Div(salary, stdHours)
    IN  IF att.slabMode
        THEN IF Gt(workedHours, stdHours)
             THEN LET extraHours == Sub(workedHours, stdHours)
                      slabRate   == Div(salary, slabBase)
                  IN  Add(Mul(normalRate, stdHours), Mul(slabRate, extraHours))
             ELSE Mul(normalRate, workedHours)
        ELSE Mul(normalRate, workedHours)

\* computedPay of one row of the attendance table (loadAttendanceTable):
\* nothing without worked hours, the full salary in Sunday mode, else the
\* pay by hours at globalSettings
ComputedPay(att, emp, stdHours, slabBase) ==
    LET workedHours == ParseFloat(att.workedHours)
        salary      == ParseFloat(emp.salary)
        normalRate  == Div(salary, stdHours)
    IN  IF ~Truthy(att.workedHours) THEN Num(0)
        ELSE IF att.sundayMode THEN salary
        ELSE IF att.slabMode /\ Gt(workedHours, stdHours)
             THEN LET extraHours == Sub(workedHours, stdHours)
                      slabRate   == Div(salary, slabBase)
                  IN  Add(Mul(normalRate, stdHours), Mul(slabRate, extraHours))
             ELSE Mul(normalRate, workedHours)

\* dayPay of one row of the payslip detail (updateModalData)
DayPay(a, emp, stdHours, slabBase) ==
    LET wh         == ParseFloat(a.workedHours)
        sal        == ParseFloat(emp.salary)
        normalRate == Div(sal, stdHours)
    IN  IF a.slabMode /\ Gt(wh, stdHours)
        THEN LET normalPart == Mul(normalRate, stdHours)
                 extraPart  == Mul(Div(sal, slabBase), Sub(wh, stdHours))
             IN  Add(normalPart, extraPart)
        ELSE Mul(normalRate, wh)

\* the fare scaled by the hours worked
ScaledFare(att) == Mul(OrZero(ParseFloat(att.fare)), ParseFloat(att.workedHours))

\* the fare a row adds: parseFloat(att.fare) || 0
FareOf(att) == OrZero(ParseFloat(att.fare))

\* an advance that adds nothing
NoAdvanceAmount(adv) == Num(0)

\* the amount an advance adds: parseFloat(adv.amount) || 0
AdvanceAmount(adv) == OrZero(ParseFloat(adv.amount))

\* the month of the advance's date, whatever its deductionMonth is
DateMonth(a) == IF a.date # <<>> THEN Substring7(a.date) ELSE <<>>

\* a.deductionMonth || (a.date ? a.date.substring(0, 7) : '')
Deduct(a) ==
    IF a.deductionMonth # <<>> THEN a.deductionMonth
    ELSE IF a.date # <<>> THEN Substring7(a.date) ELSE <<>>

\* a.date.startsWith(month) throws a TypeError on a row of an employee of
\* the list whose date is null
EmpAttThrows(emps, att) ==
    \E i \in DOMAIN emps, k \in DOMAIN att :
        att[k].employeeId = i /\ att[k].date = NoValue

\* empAtt: attendance of the employee in the month
EmpAtt(att, emp, month) ==
    SelectSeq(att, LAMBDA a : a.employeeId = emp.id /\ StartsWith(a.date, month))

\* empAdv: advances of the employee deducted in the month
EmpAdv(adv, emp, month) ==
    SelectSeq(adv, LAMBDA a : a.employeeId = emp.id /\ Deduct(a) = month)

\* empPay without the employee filter
EmpPayAnyEmployee(pay, emp, month) ==
    SelectSeq(pay, LAMBDA p : p.salaryMonth = month)

\* empPay: payments of the employee for the salary month
EmpPay(pay, emp, month) ==
    SelectSeq(pay, LAMBDA p : p.employeeId = emp.id /\ p.salaryMonth = month)

\* pastAtt comparing the number of the month only, not the year
PastAttByMonthNumber(att, emp, month) ==
    SelectSeq(att, LAMBDA a : a.employeeId = emp.id /\ a.date[2] < month[2])

\* pastAtt without the employee filter
PastAttAnyEmployee(att, emp, month) ==
    SelectSeq(att, LAMBDA a : StrLess(a.date, FirstDay(month)))

\* pastAtt: attendance of the employee before the first day of the month
PastAtt(att, emp, month) ==
    SelectSeq(att, LAMBDA a : a.employeeId = emp.id /\ FieldLess(a.date, FirstDay(month)))

\* pastAdv by the month the advance was given in
PastAdvByDate(adv, emp, month) ==
    SelectSeq(adv, LAMBDA a : a.employeeId = emp.id /\ StrLess(Substring7(a.date), month))

\* pastAdv: advances of the employee deducted in an earlier month
PastAdv(adv, emp, month) ==
    SelectSeq(adv, LAMBDA a : a.employeeId = emp.id /\ StrLess(Deduct(a), month))

\* pastPay with the payments of the month itself
PastPayUpTo(pay, emp, month) ==
    SelectSeq(pay, LAMBDA p : p.employeeId = emp.id /\ ~StrLess(month, p.salaryMonth))

\* pastPay: payments of the employee for an earlier salary month
PastPay(pay, emp, month) ==
    SelectSeq(pay, LAMBDA p : p.employeeId = emp.id /\ FieldLess(p.salaryMonth, month))

\* empAtt.forEach: totalSalary += dailySalary
RECURSIVE TotalSalary(_, _, _, _)
TotalSalary(rows, emp, stdHours, slabBase) ==
    IF rows = <<>> THEN Num(0)
    ELSE Add(DailySalary(Head(rows), emp, stdHours, slabBase),
             TotalSalary(Tail(rows), emp, stdHours, slabBase))

\* empAtt.forEach: totalFare += parseFloat(att.fare) || 0
RECURSIVE TotalFare(_)
TotalFare(rows) ==
    IF rows = <<>> THEN Num(0)
    ELSE Add(FareOf(Head(rows)), TotalFare(Tail(rows)))

\* pastAtt.forEach: pastEarnings += dailySalary; pastEarnings += fare
RECURSIVE PastEarnings(_, _, _, _)
PastEarnings(rows, emp, stdHours, slabBase) ==
    IF rows = <<>> THEN Num(0)
    ELSE Add(Add(PastDailySalary(Head(rows), emp, stdHours, slabBase),
                 FareOf(Head(rows))),
             PastEarnings(Tail(rows), emp, stdHours, slabBase))

\* reduce((sum, adv) => sum + (parseFloat(adv.amount) || 0), 0)
RECURSIVE SumAdvances(_)
SumAdvances(rows) ==
    IF rows = <<>> THEN Num(0)
    ELSE Add(AdvanceAmount(Head(rows)), SumAdvances(Tail(rows)))

\* reduce((sum, p) => sum + p.amount, 0)
RECURSIVE SumPayments(_)
SumPayments(rows) ==
    IF rows = <<>> THEN Num(0)
    ELSE Add(ToNumber(Head(rows).amount), SumPayments(Tail(rows)))

\* the status with remainingDue < 0 for "Settled"
StrictStatus(remainingDue, totalPaid) ==
    IF Lt(remainingDue, Num(0)) THEN "Settled"
    ELSE IF Gt(totalPaid, Num(0)) THEN "Partial" ELSE "Unpaid"

\* remainingDue <= 0 ? 'Settled' : (totalPaid > 0 ? 'Partial' : 'Unpaid')
Status(remainingDue, totalPaid) ==
    IF Leq(remainingDue, Num(0)) THEN "Settled"
    ELSE IF Gt(totalPaid, Num(0)) THEN "Partial" ELSE "Unpaid"

\* netPayable without Math.round
UnroundedNetPayable(currentMonthNet, previousBalance) ==
    Add(currentMonthNet, previousBalance)

\* netPayable = Math.round(currentMonthNet + previousBalance)
NetPayable(currentMonthNet, previousBalance) ==
    Round(Add(currentMonthNet, previousBalance))

\* remainingDue clamped at zero
ClampedDue(netPayable, totalPaid) ==
    IF Lt(Sub(netPayable, totalPaid), Num(0)) THEN Num(0) ELSE Sub(netPayable, totalPaid)

\* remainingDue = netPayable - totalPaid
RemainingDue(netPayable, totalPaid) == Sub(netPayable, totalPaid)

\* previousBalance = Math.round(pastEarnings - pastDeductions - pastPaymentsTotal)
PreviousBalance(pastEarnings, pastDeductions, pastPaymentsTotal) ==
    Round(Sub(Sub(pastEarnings, pastDeductions), pastPaymentsTotal))

\* the statement employees.map builds for one employee
Statement(emp, att, adv, pay, stdHours, slabBase, month) ==
    LET empAtt          == EmpAtt(att, emp, month)
        empAdv          == EmpAdv(adv, emp, month)
        empPay          == EmpPay(pay, emp, month)
        totalPaid       == SumPayments(empPay)
        totalSalary     == TotalSalary(empAtt, emp, stdHours, slabBase)
        totalFare       == TotalFare(empAtt)
        totalAdvance    == SumAdvances(empAdv)
        pastEarnings    == PastEarnings(PastAtt(att, emp, month), emp, stdHours, slabBase)
        pastDeductions  == SumAdvances(PastAdv(adv, emp, month))
        pastPaymentsTotal == SumPayments(PastPay(pay, emp, month))
        previousBalance == PreviousBalance(pastEarnings, pastDeductions, pastPaymentsTotal)
        currentMonthNet == Sub(Add(totalSalary, totalFare), totalAdvance)
        netPayable      == NetPayable(currentMonthNet, previousBalance)
        remainingDue    == RemainingDue(netPayable, totalPaid)
    IN  [employee        |-> emp,
         daysWorked      |-> Len(empAtt),
         salaryEarned    |-> Round(totalSalary),
         fareTotal       |-> totalFare,
         advancePaid     |-> totalAdvance,
         previousBalance |-> previousBalance,
         currentMonthNet |-> Round(currentMonthNet),
         finalPayable    |-> netPayable,
         paidTotal       |-> totalPaid,
         remainingDue    |-> remainingDue,
         status          |-> Status(remainingDue, totalPaid)]

\* statements for the employees with attendance in the month only
ActivePayroll(emps, att, adv, pay, settingsData, month) ==
    LET stdHours == StdHours(settingsData)
        slabBase == SlabBase(settingsData)
        active   == {i \in DOMAIN emps :
                        \E k \in DOMAIN att :
                            att[k].employeeId = i /\ StartsWith(att[k].date, month)}
    IN  [i \in active |->
            Statement([id |-> i, salary |-> emps[i]], att, adv, pay,
                      stdHours, slabBase, month)]

\* the response body: one statement per employee row, keyed by employee id
\* (lastPaymentDate and paymentProofs, display fields copied from the
\* payment rows, are left out)
ComputePayroll(emps, att, adv, pay, settingsData, month) ==
    LET stdHours == StdHours(settingsData)
        slabBase == SlabBase(settingsData)
    IN  [i \in DOMAIN emps |->
            Statement([id |-> i, salary |-> emps[i]], att, adv, pay,
                      stdHours, slabBase, month)]

(***************************************************************************)
(* Requests: the values the handlers are called with                       *)
(***************************************************************************)
EmpIds == {1, 2}

Salaries == {Num(800), Num(850)}

\* standardHours 8.5 or 9, slabHours 6 or 8
SettingsBodies ==
    { [standardHours |-> Rat(17, 2), slabHours |-> Num(6)],
      [standardHours |-> Num(9),     slabHours |-> Num(6)],
      [standardHours |-> Num(9),     slabHours |-> Num(8)] }

\* the bodies POST /api/settings is called with: the settings above and
\* bodies with a zero
SettingsRequests ==
    SettingsBodies
    \cup { [standardHours |-> Num(0), slabHours |-> Num(6)],
           [standardHours |-> Rat(17, 2), slabHours |-> Num(0)] }

Dates == {<<2024, 11, 30>>, <<2024, 12, 1>>, <<2025, 1, 1>>}

SalaryMonths == {<<2024, 12>>, <<2025, 1>>}

QueryMonths == {<<2024, 12>>, <<2025, 1>>}

\* a short day at the normal rate, a long day in slab mode with a fare, and
\* a short Sunday
DayBodies ==
    { [workedHours |-> Num(2),  slabMode |-> FALSE, sundayMode |-> FALSE, fare |-> Num(0)],
      [workedHours |-> Num(10), slabMode |-> TRUE,  sundayMode |-> FALSE, fare |-> Num(50)],
      [workedHours |-> Num(2),  slabMode |-> TRUE,  sundayMode |-> TRUE,  fare |-> Num(50)] }

AttendanceBodies ==
    { [employeeId |-> e, date |-> d, workedHours |-> b.workedHours,
       slabMode |-> b.slabMode, sundayMode |-> b.sundayMode, fare |-> b.fare] :
      e \in EmpIds, d \in Dates, b \in DayBodies }

AdvanceBodies ==
    [employeeId : EmpIds, amount : {Num(500)},
     date : {<<2024, 11, 30>>, <<2024, 12, 1>>},
     deductionMonth : {<<>>, <<2025, 1>>}]

PaymentBodies ==
    [employeeId : EmpIds, salaryMonth : SalaryMonths, amount : {Num(1000)}]

\* the number of attendance, advance and payment rows the handlers store
MaxRecords == 1

Records == BagCardinality(attendance) + BagCardinality(advances) + BagCardinality(payments)

(***************************************************************************)
(* Handlers (src/server.js)                                                *)
(***************************************************************************)
Init ==
    /\ employees = <<>>
    /\ attendance = EmptyBag
    /\ advances = EmptyBag
    /\ payments = EmptyBag
    /\ settings = DefaultSettings
    /\ payroll = <<>>
    /\ queryMonth = <<>>
    /\ statusCode = 0
    /\ inflight = <<>>

\* a response other than a payroll list replaces the last response
Answered ==
    payroll' = <<>> /\ queryMonth' = <<>> /\ statusCode' = 0 /\ inflight' = inflight

\* POST /api/employees: a row with a fresh id (Date.now())
PostEmployee(id, salary) ==
    /\ id \notin DOMAIN employees
    /\ employees' = [i \in DOMAIN employees \cup {id} |->
                        IF i = id THEN salary ELSE employees[i]]
    /\ Answered
    /\ UNCHANGED <<attendance, advances, payments, settings>>

\* the rows of a table that are not of employee id
WithoutEmployee(table, id) ==
    LET kept == {r \in BagToSet(table) : r.employeeId # id}
    IN  [r \in kept |-> CopiesIn(r, table)]

\* a delete of the employees row alone
DeleteEmployeeRowOnly(id) ==
    /\ id \in DOMAIN employees
    /\ employees' = [i \in DOMAIN employees \ {id} |-> employees[i]]
    /\ Answered
    /\ UNCHANGED <<attendance, advances, payments, settings>>

\* DELETE /api/employees/:id: the employees row is deleted, and with it
\* (FOREIGN KEY ... ON DELETE CASCADE) the rows of the three tables that
\* reference it
DeleteEmployee(id) ==
    /\ id \in DOMAIN employees
    /\ employees' = [i \in DOMAIN employees \ {id} |-> employees[i]]
    /\ attendance' = WithoutEmployee(attendance, id)
    /\ advances' = WithoutEmployee(advances, id)
    /\ payments' = WithoutEmployee(payments, id)
    /\ Answered
    /\ UNCHANGED settings

\* PUT /api/employees/:id
PutEmployee(id, salary) ==
    /\ id \in DOMAIN employees
    /\ employees' = [employees EXCEPT ![id] = salary]
    /\ Answered
    /\ UNCHANGED <<attendance, advances, payments, settings>>

\* a duplicate check that finds no row
NoDuplicateFound(employeeId, date) == FALSE

\* checkDuplicateAttendance(employeeId, date)
CheckDuplicateAttendance(employeeId, date) ==
    \E r \in BagToSet(attendance) : r.employeeId = employeeId /\ r.date = date

\* the row POST /api/attendance builds: the body's slabMode || false and
\* fare || 0, and no sundayMode (the column keeps its empty default)
PostedRow(body) ==
    [employeeId |-> body.employeeId, date |-> body.date,
     workedHours |-> body.workedHours, slabMode |-> body.slabMode,
     sundayMode |-> FALSE, fare |-> OrZero(body.fare)]

\* POST /api/attendance: rejected as a duplicate, or a row built from the
\* body (which carries no sundayMode column)
PostAttendance(body) ==
    /\ Records < MaxRecords
    /\ body.employeeId \in DOMAIN employees
    /\ ~CheckDuplicateAttendance(body.employeeId, body.date)
    /\ attendance' = attendance (+) SetToBag({PostedRow(body)})
    /\ Answered
    /\ UNCHANGED <<employees, advances, payments, settings>>

\* PUT /api/attendance/:id: the row takes the fields of the body
PutAttendance(row, body) ==
    /\ BagIn(row, attendance)
    /\ body.employeeId \in DOMAIN employees
    /\ attendance' = (attendance (-) SetToBag({row})) (+) SetToBag({body})
    /\ Answered
    /\ UNCHANGED <<employees, advances, payments, settings>>

\* DELETE /api/attendance/:id
DeleteAttendance(row) ==
    /\ BagIn(row, attendance)
    /\ attendance' = attendance (-) SetToBag({row})
    /\ Answered
    /\ UNCHANGED <<employees, advances, payments, settings>>

\* POST /api/advances
PostAdvance(body) ==
    /\ Records < MaxRecords
    /\ body.employeeId \in DOMAIN employees
    /\ advances' = advances (+) SetToBag({body})
    /\ Answered
    /\ UNCHANGED <<employees, attendance, payments, settings>>

\* DELETE /api/advances/:id
DeleteAdvance(row) ==
    /\ BagIn(row, advances)
    /\ advances' = advances (-) SetToBag({row})
    /\ Answered
    /\ UNCHANGED <<employees, attendance, payments, settings>>

\* POST /api/payments
PostPayment(body) ==
    /\ Records < MaxRecords
    /\ body.employeeId \in DOMAIN employees
    /\ payments' = payments (+) SetToBag({body})
    /\ Answered
    /\ UNCHANGED <<employees, attendance, advances, settings>>

\* POST /api/settings: updateSettings(req.body), the row takes the fields of
\* the body
PostSettings(body) ==
    /\ settings' = body
    /\ Answered
    /\ UNCHANGED <<employees, attendance, advances, payments>>

\* GET /api/payroll answering from the last statement list when there is one
GetPayrollCached(month) ==
    /\ month # <<>>
    /\ IF statusCode = 200
       THEN payroll' = payroll /\ statusCode' = 200
       ELSE /\ payroll' = ComputePayroll(employees, Rows(attendance), Rows(advances),
                                         Rows(payments), GetSettings(settings), month)
            /\ statusCode' = 200
    /\ queryMonth' = month
    /\ UNCHANGED <<employees, attendance, advances, payments, settings, inflight>>

\* GET /api/payroll removing the payments it has counted
GetPayrollConsuming(month) ==
    /\ month # <<>>
    /\ payroll' = ComputePayroll(employees, Rows(attendance), Rows(advances),
                                 Rows(payments), GetSettings(settings), month)
    /\ statusCode' = 200
    /\ queryMonth' = month
    /\ payments' = EmptyBag
    /\ UNCHANGED <<employees, attendance, advances, settings, inflight>>

\* GET /api/payroll?month=: the statement list, or the error response of
\* the catch block when the computation throws
GetPayroll(month) ==
    /\ month # <<>>
    /\ IF EmpAttThrows(employees, Rows(attendance))
       THEN payroll' = <<>> /\ statusCode' = 500
       ELSE /\ payroll' = ComputePayroll(employees, Rows(attendance), Rows(advances),
                                         Rows(payments), GetSettings(settings), month)
            /\ statusCode' = 200
    /\ queryMonth' = month
    /\ UNCHANGED <<employees, attendance, advances, payments, settings, inflight>>

Next ==
    \/ \E id \in EmpIds, salary \in Salaries : PostEmployee(id, salary)
    \/ \E id \in EmpIds, salary \in Salaries : PutEmployee(id, salary)
    \/ \E body \in AttendanceBodies : PostAttendance(body)
    \/ \E row \in BagToSet(attendance), body \in AttendanceBodies : PutAttendance(row, body)
    \/ \E row \in BagToSet(attendance) : DeleteAttendance(row)
    \/ \E body \in AdvanceBodies : PostAdvance(body)
    \/ \E row \in BagToSet(advances) : DeleteAdvance(row)
    \/ \E body \in PaymentBodies : PostPayment(body)
    \/ \E body \in SettingsRequests : PostSettings(body)
    \/ \E month \in QueryMonths : GetPayroll(month)

Spec == Init /\ [][Next]_vars

(***************************************************************************)
(* Attendance writes, request by request.  POST /api/attendance awaits the *)
(* duplicate check and then the insert, so a request is in flight between  *)
(* the two store calls and other requests run in between.  The attendance  *)
(* table has a primary key on id and a foreign key on employeeId           *)
(* (src/services/db.js) and no other constraint.                           *)
(***************************************************************************)
MaxInflight == 2

MaxAttendance == 2

\* the bodies of the attendance writes: a short day of either employee on
\* either of two dates
AttendanceRequests ==
    { r \in AttendanceBodies :
        /\ r.date \in {<<2024, 12, 1>>, <<2025, 1, 1>>}
        /\ r.workedHours = Num(2) /\ ~r.sundayMode }

Request(stage, body) == [stage |-> stage, body |-> body]

\* a response of a write handler
Responded(code) ==
    payroll' = <<>> /\ queryMonth' = <<>> /\ statusCode' = code

\* POST /api/attendance is received
ReceivePostAttendance(body) ==
    /\ BagCardinality(inflight) < MaxInflight
    /\ inflight' = inflight (+) SetToBag({Request("received", body)})
    /\ UNCHANGED <<employees, attendance, advances, payments, settings,
                   payroll, queryMonth, statusCode>>

\* POST /api/attendance, the duplicate check: if (employeeId && date) and
\* the store holds a row of that employee and date, the answer is 400
CheckPostAttendance(req) ==
    /\ BagIn(req, inflight)
    /\ req.stage = "received"
    /\ IF /\ req.body.date # NoValue
          /\ CheckDuplicateAttendance(req.body.employeeId, req.body.date)
       THEN /\ inflight' = inflight (-) SetToBag({req})
            /\ Responded(400)
       ELSE /\ inflight' = (inflight (-) SetToBag({req}))
                              (+) SetToBag({Request("checked", req.body)})
            /\ UNCHANGED <<payroll, queryMonth, statusCode>>
    /\ UNCHANGED <<employees, attendance, advances, payments, settings>>

\* POST /api/attendance, the insert: createAttendance stores the row, or
\* the foreign key rejects it and the answer is 500
InsertPostAttendance(req) ==
    /\ BagIn(req, inflight)
    /\ req.stage = "checked"
    /\ BagCardinality(attendance) < MaxAttendance
    /\ inflight' = inflight (-) SetToBag({req})
    /\ IF req.body.employeeId \in DOMAIN employees
       THEN /\ attendance' = attendance (+) SetToBag({PostedRow(req.body)})
            /\ Responded(200)
       ELSE /\ attendance' = attendance
            /\ Responded(500)
    /\ UNCHANGED <<employees, advances, payments, settings>>

\* POST /api/settings/import-data, the attendance rows of the payload:
\* upsert on id, so rows of ids the table does not hold are inserted
ImportAttendance(rows) ==
    /\ rows # {}
    /\ BagCardinality(attendance) + Cardinality(rows) <= MaxAttendance
    /\ \A r \in rows : r.employeeId \in DOMAIN employees
    /\ attendance' = attendance (+) SetToBag(rows)
    /\ Answered
    /\ UNCHANGED <<employees, advances, payments, settings>>

InitAttendance ==
    /\ employees = (1 :> Num(850)) @@ (2 :> Num(800))
    /\ attendance = EmptyBag
    /\ advances = EmptyBag
    /\ payments = EmptyBag
    /\ settings = DefaultSettings
    /\ payroll = <<>>
    /\ queryMonth = <<>>
    /\ statusCode = 0
    /\ inflight = EmptyBag

NextAttendance ==
    \/ \E body \in AttendanceRequests : ReceivePostAttendance(body)
    \/ \E req \in BagToSet(inflight) : CheckPostAttendance(req)
    \/ \E req \in BagToSet(inflight) : InsertPostAttendance(req)
    \/ \E row \in BagToSet(attendance), body \in AttendanceRequests :
          PutAttendance(row, body)
    \/ \E row \in BagToSet(attendance) : DeleteAttendance(row)
    \/ \E rows \in SUBSET AttendanceRequests : ImportAttendance(rows)
    \/ \E id \in EmpIds : DeleteEmployee(id)

SpecAttendance == InitAttendance /\ [][NextAttendance]_vars

(***************************************************************************)
(* The writes that create, move and delete the rows that reference an      *)
(* employee, from a store of two employees.                                *)
(***************************************************************************)
NextIntegrity ==
    \/ \E body \in AttendanceBodies : PostAttendance(body)
    \/ \E row \in BagToSet(attendance), body \in AttendanceBodies : PutAttendance(row, body)
    \/ \E body \in AdvanceBodies : PostAdvance(body)
    \/ \E body \in PaymentBodies : PostPayment(body)
    \/ \E id \in EmpIds, salary \in Salaries : PutEmployee(id, salary)
    \/ \E id \in EmpIds : DeleteEmployee(id)

SpecIntegrity == InitAttendance /\ [][NextIntegrity]_vars

(***************************************************************************)
(* The payroll computation over a drawn store: two employees, the          *)
(* settings and up to MaxRows attendance, advance and payment rows are     *)
(* drawn, and GET /api/payroll is asked for a month.  Employee 1 has rows  *)
(* of every date and shape; employee 2 has one row of each table, which    *)
(* must never count for employee 1.                                        *)
(***************************************************************************)
MaxRows == 3

NoRow == [kind |-> "none"]

DrawnAttendance ==
    { r \in AttendanceBodies :
        r.employeeId = 2 => r.date = <<2024, 12, 1>> /\ r.slabMode /\ ~r.sundayMode }

DrawnAdvances ==
    { r \in AdvanceBodies :
        r.employeeId = 2 => r.date = <<2024, 12, 1>> /\ r.deductionMonth = <<>> }

DrawnPayments ==
    { r \in PaymentBodies : r.employeeId = 2 => r.salaryMonth = <<2024, 12>> }

DrawnRows ==
    {NoRow}
    \cup {[kind |-> "attendance", row |-> r] : r \in DrawnAttendance}
    \cup {[kind |-> "advance", row |-> r] : r \in DrawnAdvances}
    \cup {[kind |-> "payment", row |-> r] : r \in DrawnPayments}

\* the table of one kind that a drawn sequence of rows makes
RECURSIVE TableOf(_, _)
TableOf(rs, kind) ==
    IF rs = <<>> THEN EmptyBag
    ELSE IF Head(rs).kind = kind
         THEN SetToBag({Head(rs).row}) (+) TableOf(Tail(rs), kind)
         ELSE TableOf(Tail(rs), kind)

InitPayroll ==
    /\ employees = (1 :> Num(850)) @@ (2 :> Num(800))
    /\ settings \in SettingsBodies
    /\ \E rs \in [1..MaxRows -> DrawnRows] :
          /\ attendance = TableOf(rs, "attendance")
          /\ advances = TableOf(rs, "advance")
          /\ payments = TableOf(rs, "payment")
    /\ payroll = <<>>
    /\ queryMonth = <<>>
    /\ statusCode = 0
    /\ inflight = <<>>

NextPayroll == \E month \in QueryMonths : GetPayroll(month)

SpecPayroll == InitPayroll /\ [][NextPayroll]_vars

(***************************************************************************)
(* The payroll computation over collections that hold rows of no employee  *)
(* of the list: the handler reads the employees and the three tables in    *)
(* separate store calls and filters every table by emp.id.  Employee 1 is  *)
(* the list; the rows of employee 2, one of them without a date, have no   *)
(* employee.                                                               *)
(***************************************************************************)
OrphanRows ==
    DrawnRows \cup
    {[kind |-> "attendance",
      row |-> [employeeId |-> 2, date |-> NoValue, workedHours |-> Num(10),
               slabMode |-> TRUE, sundayMode |-> FALSE, fare |-> Num(50)]]}

InitOrphans ==
    /\ employees = (1 :> Num(850))
    /\ settings \in SettingsBodies
    /\ \E rs \in [1..MaxRows -> OrphanRows] :
          /\ attendance = TableOf(rs, "attendance")
          /\ advances = TableOf(rs, "advance")
          /\ payments = TableOf(rs, "payment")
    /\ payroll = <<>>
    /\ queryMonth = <<>>
    /\ statusCode = 0
    /\ inflight = <<>>

NextOrphans == \E month \in QueryMonths : GetPayroll(month)

SpecOrphans == InitOrphans /\ [][NextOrphans]_vars

(***************************************************************************)
(* The pay of single days: one employee, the settings and up to MaxDays    *)
(* attendance rows are drawn over every combination of worked hours, slab  *)
(* mode, Sunday mode and fare.                                             *)
(***************************************************************************)
MaxDays == 1

DayRows ==
    [employeeId : {1}, date : {<<2024, 12, 1>>, <<2025, 1, 1>>},
     workedHours : {Num(0), Num(2), Num(10)}, slabMode : BOOLEAN,
     sundayMode : BOOLEAN, fare : {Num(0), Num(50)}]

DrawnDays == {NoRow} \cup {[kind |-> "attendance", row |-> r] : r \in DayRows}

InitDay ==
    /\ \E salary \in Salaries : employees = (1 :> salary)
    /\ settings \in SettingsBodies
    /\ \E rs \in [1..MaxDays -> DrawnDays] : attendance = TableOf(rs, "attendance")
    /\ advances = EmptyBag
    /\ payments = EmptyBag
    /\ payroll = <<>>
    /\ queryMonth = <<>>
    /\ statusCode = 0
    /\ inflight = <<>>

NextDay == \E month \in QueryMonths : GetPayroll(month)

SpecDay == InitDay /\ [][NextDay]_vars

(***************************************************************************)
(* Payroll queries between updates of the settings and of the salary: the  *)
(* attendance is recorded while the settings are the defaults and the      *)
(* salary is 800, then the admin changes them and asks for the payroll.    *)
(***************************************************************************)
InitHistory ==
    /\ employees = (1 :> Num(800))
    /\ settings = DefaultSettings
    /\ \E rs \in [1..MaxDays -> DrawnDays] : attendance = TableOf(rs, "attendance")
    /\ advances = EmptyBag
    /\ payments = EmptyBag
    /\ payroll = <<>>
    /\ queryMonth = <<>>
    /\ statusCode = 0
    /\ inflight = <<>>

NextHistory ==
    \/ \E body \in SettingsBodies : PostSettings(body)
    \/ \E salary \in Salaries : PutEmployee(1, salary)
    \/ \E month \in QueryMonths : GetPayroll(month)

SpecHistory == InitHistory /\ [][NextHistory]_vars

(***************************************************************************)
(* The payroll computation over rows with the dates and months the write   *)
(* handlers store as they come: the date column is text, so a date may be  *)
(* "2025-01" or "2025-01-00", and an advance may have neither date nor     *)
(* deductionMonth.                                                         *)
(***************************************************************************)
TextDates == {<<2024, 12, 1>>, <<2025, 1, 1>>, <<2025, 1>>, <<2025, 1, 0>>}

PartitionRows ==
    {NoRow}
    \cup {[kind |-> "attendance", row |-> r] :
            r \in [employeeId : {1}, date : TextDates,
                   workedHours : {Num(2), Num(10)}, slabMode : BOOLEAN,
                   sundayMode : {FALSE}, fare : {Num(50)}]}
    \cup {[kind |-> "advance", row |-> r] :
            r \in [employeeId : {1}, amount : {Num(500)},
                   date : {<<>>, <<2024, 12, 1>>},
                   deductionMonth : {<<>>, <<2025, 1>>}]}
    \cup {[kind |-> "payment", row |-> r] :
            r \in {b \in PaymentBodies : b.employeeId = 1}}

InitPartition ==
    /\ employees = (1 :> Num(850))
    /\ settings \in SettingsBodies
    /\ \E rs \in [1..MaxDays -> PartitionRows] :
          /\ attendance = TableOf(rs, "attendance")
          /\ advances = TableOf(rs, "advance")
          /\ payments = TableOf(rs, "payment")
    /\ payroll = <<>>
    /\ queryMonth = <<>>
    /\ statusCode = 0
    /\ inflight = <<>>

NextPartition == \E month \in QueryMonths : GetPayroll(month)

SpecPartition == InitPartition /\ [][NextPartition]_vars

(***************************************************************************)
(* GET /api/payroll read by read: the handler awaits getAllEmployees,      *)
(* getAllAttendance, getAllAdvances, getAllPayments and getSettings one    *)
(* after the other, outside any transaction, so a write of another request *)
(* can run between two reads.  The query in flight keeps what it has read  *)
(* and the store as it was when it began; one write runs while it reads.   *)
(***************************************************************************)
Idle == IF inflight = <<>> THEN TRUE ELSE inflight.pc = "done"

\* GET /api/payroll?month= is received
BeginPayroll(month) ==
    /\ Idle
    /\ month # <<>>
    /\ inflight' = [month |-> month, pc |-> "employees", before |-> store,
                    emps |-> <<>>, att |-> <<>>, adv |-> <<>>, pay |-> <<>>]
    /\ payroll' = <<>> /\ queryMonth' = <<>> /\ statusCode' = 0
    /\ UNCHANGED store

\* const employees = await dbService.getAllEmployees()
ReadEmployees ==
    /\ ~Idle /\ inflight.pc = "employees"
    /\ inflight' = [inflight EXCEPT !.emps = employees, !.pc = "attendance"]
    /\ UNCHANGED <<store, payroll, queryMonth, statusCode>>

\* const attendance = await dbService.getAllAttendance()
ReadAttendance ==
    /\ ~Idle /\ inflight.pc = "attendance"
    /\ inflight' = [inflight EXCEPT !.att = Rows(attendance), !.pc = "advances"]
    /\ UNCHANGED <<store, payroll, queryMonth, statusCode>>

\* const advances = await dbService.getAllAdvances()
ReadAdvances ==
    /\ ~Idle /\ inflight.pc = "advances"
    /\ inflight' = [inflight EXCEPT !.adv = Rows(advances), !.pc = "payments"]
    /\ UNCHANGED <<store, payroll, queryMonth, statusCode>>

\* const payments = await dbService.getAllPayments()
ReadPayments ==
    /\ ~Idle /\ inflight.pc = "payments"
    /\ inflight' = [inflight EXCEPT !.pay = Rows(payments), !.pc = "settings"]
    /\ UNCHANGED <<store, payroll, queryMonth, statusCode>>

\* const settingsData = await dbService.getSettings(), and the statement
\* list computed from the five values read
ReadSettingsAndRespond ==
    /\ ~Idle /\ inflight.pc = "settings"
    /\ IF EmpAttThrows(inflight.emps, inflight.att)
       THEN payroll' = <<>> /\ statusCode' = 500
       ELSE /\ payroll' = ComputePayroll(inflight.emps, inflight.att, inflight.adv,
                                         inflight.pay, GetSettings(settings),
                                         inflight.month)
            /\ statusCode' = 200
    /\ queryMonth' = inflight.month
    /\ inflight' = [inflight EXCEPT !.pc = "done"]
    /\ UNCHANGED store

\* the first write of another request while the query reads
WriteBetweenReads ==
    /\ ~Idle
    /\ store = inflight.before
    /\ \/ \E id \in EmpIds : DeleteEmployee(id)
       \/ \E id \in EmpIds, salary \in Salaries : PutEmployee(id, salary)
       \/ \E row \in BagToSet(attendance) : DeleteAttendance(row)
       \/ \E body \in SettingsBodies : PostSettings(body)

InitSnapshot ==
    /\ employees = (1 :> Num(850)) @@ (2 :> Num(800))
    /\ settings \in SettingsBodies
    /\ \E rs \in [1..MaxDays -> DrawnDays] : attendance = TableOf(rs, "attendance")
    /\ advances = EmptyBag
    /\ payments = EmptyBag
    /\ payroll = <<>>
    /\ queryMonth = <<>>
    /\ statusCode = 0
    /\ inflight = <<>>

NextSnapshot ==
    \/ \E month \in QueryMonths : BeginPayroll(month)
    \/ ReadEmployees
    \/ ReadAttendance
    \/ ReadAdvances
    \/ ReadPayments
    \/ ReadSettingsAndRespond
    \/ WriteBetweenReads

SpecSnapshot == InitSnapshot /\ [][NextSnapshot]_vars

(***************************************************************************)
(* Payments next to the amount due: one employee, one day of work in       *)
(* November or December 2024 and one payment for December of an amount     *)
(* just below, at or just above the pay of the day.                        *)
(***************************************************************************)
RoundDays ==
    [employeeId : {1}, date : {<<2024, 11, 30>>, <<2024, 12, 1>>},
     workedHours : {Num(2), Num(10)}, slabMode : BOOLEAN,
     sundayMode : {FALSE}, fare : {Num(0)}]

RoundPayments ==
    [employeeId : {1}, salaryMonth : {<<2024, 12>>},
     amount : {Num(188), Num(189), Num(944), Num(1062), Num(1063)}]

InitRound ==
    /\ \E salary \in Salaries : employees = (1 :> salary)
    /\ settings \in SettingsBodies
    /\ \E day \in SUBSET RoundDays :
          Cardinality(day) <= 1 /\ attendance = SetToBag(day)
    /\ advances = EmptyBag
    /\ \E paid \in SUBSET RoundPayments :
          Cardinality(paid) <= 1 /\ payments = SetToBag(paid)
    /\ payroll = <<>>
    /\ queryMonth = <<>>
    /\ statusCode = 0
    /\ inflight = <<>>

NextRound == \E month \in QueryMonths : GetPayroll(month)

SpecRound == InitRound /\ [][NextRound]_vars

(***************************************************************************)
(* A month of full days: one employee of salary 900 with 9 standard hours, *)
(* up to MaxScenarioDays days of 9 hours in January 2025, at most one      *)
(* advance of 2000 and at most one payment.                                *)
(***************************************************************************)
MaxScenarioDays == 20

ScenarioDay(i) ==
    [employeeId |-> 1, date |-> <<2025, 1, i>>, workedHours |-> Num(9),
     slabMode |-> FALSE, sundayMode |-> FALSE, fare |-> Num(0)]

ScenarioAdvances ==
    [employeeId : {1}, amount : {Num(2000)},
     date : {<<2024, 12, 28>>, <<2025, 1, 5>>},
     deductionMonth : {<<>>, <<2025, 1>>}]

ScenarioPayments ==
    [employeeId : {1}, salaryMonth : {<<2025, 1>>}, amount : {Num(16000)}]

InitScenario ==
    /\ employees = (1 :> Num(900))
    /\ settings = [standardHours |-> Num(9), slabHours |-> Num(6)]
    /\ \E n \in 0..MaxScenarioDays :
          attendance = SetToBag({ScenarioDay(i) : i \in 1..n})
    /\ \E adv \in SUBSET ScenarioAdvances :
          Cardinality(adv) <= 1 /\ advances = SetToBag(adv)
    /\ \E paid \in SUBSET ScenarioPayments : payments = SetToBag(paid)
    /\ payroll = <<>>
    /\ queryMonth = <<>>
    /\ statusCode = 0
    /\ inflight = <<>>

NextScenario == \E month \in QueryMonths : GetPayroll(month)

SpecScenario == InitScenario /\ [][NextScenario]_vars

(***************************************************************************)
(* Stored data with empty columns: two employees, the first with or        *)
(* without a salary; no settings row, a row with empty or zero columns, or *)
(* a plain one; and up to MaxDamagedRows rows, each with or without its    *)
(* date, month, hours, fare or amount.                                     *)
(***************************************************************************)
MaxDamagedRows == 1

\* the settings row: none, empty columns, a zero, or plain values
StoredSettings ==
    { NoValue,
      [standardHours |-> NoValue,    slabHours |-> NoValue],
      [standardHours |-> NoValue,    slabHours |-> Num(8)],
      [standardHours |-> Num(0),     slabHours |-> Num(6)],
      [standardHours |-> Rat(17, 2), slabHours |-> Num(0)],
      [standardHours |-> Rat(17, 2), slabHours |-> Num(6)],
      [standardHours |-> Num(9),     slabHours |-> Num(8)] }

DamagedAttendance ==
    [employeeId : {1}, date : {<<2024, 12, 1>>, NoValue},
     workedHours : {Num(2), Num(10), NoValue}, slabMode : BOOLEAN,
     sundayMode : {FALSE}, fare : {Num(50), NoValue}]
    \cup { [employeeId |-> 2, date |-> <<2024, 12, 1>>, workedHours |-> Num(10),
            slabMode |-> TRUE, sundayMode |-> FALSE, fare |-> Num(50)] }

DamagedAdvances ==
    [employeeId : {1}, amount : {Num(500), NoValue},
     date : {<<2024, 11, 30>>, <<2024, 12, 1>>}, deductionMonth : {<<>>}]

DamagedPayments ==
    [employeeId : {1}, salaryMonth : {<<2024, 12>>, NoValue},
     amount : {Num(1000), NoValue}]

DamagedRows ==
    {NoRow}
    \cup {[kind |-> "attendance", row |-> r] : r \in DamagedAttendance}
    \cup {[kind |-> "advance", row |-> r] : r \in DamagedAdvances}
    \cup {[kind |-> "payment", row |-> r] : r \in DamagedPayments}

InitDamaged ==
    /\ \E salary \in {Num(850), NoValue} : employees = (1 :> salary) @@ (2 :> Num(800))
    /\ settings \in StoredSettings
    /\ \E rs \in [1..MaxDamagedRows -> DamagedRows] :
          /\ attendance = TableOf(rs, "attendance")
          /\ advances = TableOf(rs, "advance")
          /\ payments = TableOf(rs, "payment")
    /\ payroll = <<>>
    /\ queryMonth = <<>>
    /\ statusCode = 0
    /\ inflight = <<>>

NextDamaged == \E month \in QueryMonths : GetPayroll(month)

SpecDamaged == InitDamaged /\ [][NextDamaged]_vars

(***************************************************************************)
(* The retry helper of the store service (src/unnamed/part_001): a wrapped *)
(* store call is attempted in a loop; the call in flight keeps the loop     *)
(* index, the outcomes of its attempts and the last error.  An error       *)
(* message is a sequence of words, and message.includes(w) finds a word.   *)
(***************************************************************************)
DefaultMaxRetries == 3

UploadMaxRetries == 2

WrappedCalls == {"uploadFile", "getAllEmployees", "checkDuplicateAttendance"}

\* the maxRetries argument of the call
MaxRetriesOf(call) ==
    IF call = "uploadFile" THEN UploadMaxRetries ELSE DefaultMaxRetries

Messages ==
    { <<"fetch failed">>, <<"network", "error">>, <<"request", "timeout">>,
      <<"read", "ECONNRESET">>, <<"duplicate key">>, <<"Network", "unreachable">> }

\* what an attempt of the operation ends with: its value or a thrown error
Outcomes == {[ok |-> TRUE]} \cup {[ok |-> FALSE, message |-> m] : m \in Messages}

Includes(message, word) == \E k \in DOMAIN message : message[k] = word

\* a helper that takes every error for a network error
RetryAnyError(message) == TRUE

\* isNetworkError
IsNetworkError(message) ==
    \/ Includes(message, "fetch failed")
    \/ Includes(message, "network")
    \/ Includes(message, "timeout")
    \/ Includes(message, "ECONNRESET")

RetrySettled ==
    IF inflight = <<>> THEN TRUE ELSE inflight.pc \in {"returned", "thrown"}

\* a wrapped call enters retry(operation, maxRetries, delay): i = 0
CallRetry(call) ==
    /\ RetrySettled
    /\ inflight' = [call |-> call, maxRetries |-> MaxRetriesOf(call), i |-> 0,
                    pc |-> "loop", outcomes |-> <<>>, lastError |-> <<>>,
                    result |-> <<>>]
    /\ UNCHANGED <<store, payroll, queryMonth, statusCode>>

\* one pass of the loop body: await operation(), then return its value,
\* keep a network error and go on (after the delay unless this was the last
\* pass), or throw any other error
Attempt(outcome) ==
    /\ ~RetrySettled
    /\ inflight.pc = "loop"
    /\ inflight.i < inflight.maxRetries
    /\ LET tried == [inflight EXCEPT !.outcomes = Append(@, outcome)]
       IN  IF outcome.ok
           THEN inflight' = [tried EXCEPT !.pc = "returned", !.result = outcome]
           ELSE IF IsNetworkError(outcome.message)
           THEN IF inflight.i < inflight.maxRetries - 1
                THEN inflight' = [tried EXCEPT !.lastError = outcome, !.pc = "wait"]
                ELSE inflight' = [tried EXCEPT !.lastError = outcome,
                                               !.i = @ + 1]
           ELSE inflight' = [tried EXCEPT !.lastError = outcome,
                                          !.pc = "thrown", !.result = outcome]
    /\ UNCHANGED <<store, payroll, queryMonth, statusCode>>

\* the timer of delay * (i + 1) fires: i++
Delay ==
    /\ ~RetrySettled
    /\ inflight.pc = "wait"
    /\ inflight' = [inflight EXCEPT !.pc = "loop", !.i = @ + 1]
    /\ UNCHANGED <<store, payroll, queryMonth, statusCode>>

\* the loop is left: throw lastError
ThrowLastError ==
    /\ ~RetrySettled
    /\ inflight.pc = "loop"
    /\ inflight.i >= inflight.maxRetries
    /\ inflight' = [inflight EXCEPT !.pc = "thrown", !.result = inflight.lastError]
    /\ UNCHANGED <<store, payroll, queryMonth, statusCode>>

NextRetry ==
    \/ \E call \in WrappedCalls : CallRetry(call)
    \/ \E outcome \in Outcomes : Attempt(outcome)
    \/ Delay
    \/ ThrowLastError

\* every awaited operation settles and every timer fires
RetryFairness ==
    /\ WF_vars(\E outcome \in Outcomes : Attempt(outcome))
    /\ WF_vars(Delay)
    /\ WF_vars(ThrowLastError)

SpecRetry == Init /\ [][NextRetry]_vars /\ RetryFairness

(***************************************************************************)
(* Properties                                                              *)
(***************************************************************************)
\* the employees with a statement in the last payroll response
Stated == IF statusCode = 200 THEN DOMAIN payroll ELSE {}

\* the rows of a table that belong to an employee
RowsOf(table, e) == {r \in BagToSet(table) : r.employeeId = e}

HasNoRecords(e) ==
    RowsOf(attendance, e) = {} /\ RowsOf(advances, e) = {} /\ RowsOf(payments, e) = {}

\* the sum of f[r] over the rows r in S, each counted as often as the table holds it
RECURSIVE SumOver(_, _, _)
SumOver(S, table, f) ==
    IF S = {} THEN Num(0)
    ELSE LET r == CHOOSE x \in S : TRUE
         IN  Add(Mul(Num(CopiesIn(r, table)), f[r]), SumOver(S \ {r}, table, f))

\* a month or date counted in months
MonthIndex(s) == s[1] * 12 + s[2]

\* the date lies in the month / before the first day of the month
DatedIn(date, month) == MonthIndex(date) = MonthIndex(month)

DatedBefore(date, month) == MonthIndex(date) < MonthIndex(month)

\* C1 (as stated): an employee with no attendance, advance or payment row has
\* previousBalance = 0, finalPayable = 0 and status "Unpaid" in every month
C1_NoRecordsUnpaid ==
    \A e \in Stated :
        HasNoRecords(e) =>
            /\ payroll[e].previousBalance = Num(0)
            /\ payroll[e].finalPayable = Num(0)
            /\ payroll[e].status = "Unpaid"

\* C1 (amended): an employee with no attendance, advance or payment row has
\* previousBalance = 0, finalPayable = 0, remainingDue = 0 and, remainingDue
\* being <= 0, status "Settled" in every month
C1_NoRecordsSettled ==
    \A e \in Stated :
        HasNoRecords(e) =>
            /\ payroll[e].previousBalance = Num(0)
            /\ payroll[e].finalPayable = Num(0)
            /\ payroll[e].remainingDue = Num(0)
            /\ payroll[e].status = "Settled"

\* a payroll response in which employee 2 has no row at all while employee 1
\* has attendance before the month, an advance and a payment
C1_Witness ==
    /\ queryMonth = <<2025, 1>>
    /\ HasNoRecords(2)
    /\ payroll[2].status = "Settled"
    /\ \E r \in RowsOf(attendance, 1) : DatedBefore(r.date, queryMonth)
    /\ RowsOf(advances, 1) # {}
    /\ RowsOf(payments, 1) # {}

\* the employee's salary and the hours of the settings
Salary(e) == employees[e]

Std == settings.standardHours

Slab == settings.slabHours

\* the employee's attendance rows dated in / before the queried month
MonthRows(e) == {r \in RowsOf(attendance, e) : DatedIn(r.date, queryMonth)}

PastRows(e) == {r \in RowsOf(attendance, e) : DatedBefore(r.date, queryMonth)}

\* an advance's effective month: its deductionMonth, else the month of its date
Effective(a) ==
    IF a.deductionMonth # <<>> THEN a.deductionMonth ELSE <<a.date[1], a.date[2]>>

MonthAdvances(e) == {a \in RowsOf(advances, e) : MonthIndex(Effective(a)) = MonthIndex(queryMonth)}

PastAdvances(e) == {a \in RowsOf(advances, e) : MonthIndex(Effective(a)) < MonthIndex(queryMonth)}

MonthPayments(e) == {q \in RowsOf(payments, e) : MonthIndex(q.salaryMonth) = MonthIndex(queryMonth)}

PastPayments(e) == {q \in RowsOf(payments, e) : MonthIndex(q.salaryMonth) < MonthIndex(queryMonth)}

AmountsOf(S, table) == SumOver(S, table, [r \in S |-> r.amount])

FaresOf(S) == SumOver(S, attendance, [r \in S |-> r.fare])

\* base pay capped at the standard hours, the excess hours at the slab rate
SlabSplit(r, e) ==
    Add(Mul(Div(Salary(e), Std), Std),
        Mul(Div(Salary(e), Slab), Sub(r.workedHours, Std)))

\* every hour at the normal rate
NormalPay(r, e) == Mul(Div(Salary(e), Std), r.workedHours)

\* the pay by hours: the slab split on a slab day longer than the standard
\* hours, the normal rate otherwise
HourlyPay(r, e) ==
    IF r.slabMode /\ Gt(r.workedHours, Std) THEN SlabSplit(r, e) ELSE NormalPay(r, e)

\* the pay of the Daily Wage Calculator: the full salary on a Sunday-mode
\* day, the pay by hours otherwise
WagePay(r, e) == IF r.sundayMode THEN Salary(e) ELSE HourlyPay(r, e)

\* what is left of earlier months when the days before the month are paid by f
BalanceOf(e, f) ==
    Round(Sub(Sub(Add(SumOver(PastRows(e), attendance, f), FaresOf(PastRows(e))),
                  AmountsOf(PastAdvances(e), advances)),
              AmountsOf(PastPayments(e), payments)))

\* C2: a Sunday-mode day is credited with exactly the full daily salary, in
\* salaryEarned of its month and in previousBalance of later months, whatever
\* its worked hours and slab mode are
C2_SundayPaysFullSalary ==
    \A e \in Stated :
        /\ payroll[e].salaryEarned =
              Round(SumOver(MonthRows(e), attendance,
                            [r \in MonthRows(e) |-> WagePay(r, e)]))
        /\ payroll[e].previousBalance =
              BalanceOf(e, [r \in PastRows(e) |-> WagePay(r, e)])

\* C3: a slab-mode day (not Sunday mode) longer than the standard hours is
\* paid (salary/standardHours)*standardHours + (salary/slabHours)*(workedHours
\* - standardHours), in salaryEarned of its month and in previousBalance later
C3_SlabSplit ==
    \A e \in Stated :
        LET SlabDay(r) == ~r.sundayMode /\ r.slabMode /\ Gt(r.workedHours, Std)
        IN  /\ (\A r \in MonthRows(e) : SlabDay(r)) =>
                  payroll[e].salaryEarned =
                      Round(SumOver(MonthRows(e), attendance,
                                    [r \in MonthRows(e) |-> SlabSplit(r, e)]))
            /\ (\A r \in PastRows(e) : SlabDay(r)) =>
                  payroll[e].previousBalance =
                      BalanceOf(e, [r \in PastRows(e) |-> SlabSplit(r, e)])

\* standardHours 8.5, slabHours 6, salary 850, 10 hours in slab mode:
\* 850 + 212.5 = 1062.5, shown rounded as 1063
C3_Witness ==
    /\ queryMonth = <<2024, 12>>
    /\ Salary(1) = Num(850) /\ Std = Rat(17, 2) /\ Slab = Num(6)
    /\ \E r \in MonthRows(1) :
          r.slabMode /\ ~r.sundayMode /\ r.workedHours = Num(10)
    /\ payroll[1].salaryEarned = Num(1063)

\* C4: a day that is not in Sunday mode and is either not in slab mode or not
\* longer than the standard hours is paid (salary/standardHours)*workedHours
C4_NormalRate ==
    \A e \in Stated :
        LET NormalDay(r) == ~r.sundayMode /\ (~r.slabMode \/ Leq(r.workedHours, Std))
        IN  /\ (\A r \in MonthRows(e) : NormalDay(r)) =>
                  payroll[e].salaryEarned =
                      Round(SumOver(MonthRows(e), attendance,
                                    [r \in MonthRows(e) |-> NormalPay(r, e)]))
            /\ (\A r \in PastRows(e) : NormalDay(r)) =>
                  payroll[e].previousBalance =
                      BalanceOf(e, [r \in PastRows(e) |-> NormalPay(r, e)])

\* 10 hours without slab mode at salary 850 and 8.5 standard hours: 1000
C4_Witness ==
    /\ queryMonth = <<2024, 12>>
    /\ Salary(1) = Num(850) /\ Std = Rat(17, 2)
    /\ \E r \in MonthRows(1) :
          ~r.slabMode /\ ~r.sundayMode /\ r.workedHours = Num(10)
    /\ payroll[1].salaryEarned = Num(1000)

\* C5: fareTotal is the plain sum of the stored fares of the month's rows, and
\* the rows before the month add their stored fares to previousBalance,
\* whatever their hours and modes and whatever the settings are
C5_FareAsStored ==
    \A e \in Stated :
        /\ payroll[e].fareTotal = FaresOf(MonthRows(e))
        /\ payroll[e].previousBalance =
              BalanceOf(e, [r \in PastRows(e) |-> HourlyPay(r, e)])

\* a fare of 50 on a Sunday-mode day of 2 hours in the month and a fare of 50
\* on a slab day of 10 hours before it
C5_Witness ==
    /\ queryMonth = <<2025, 1>>
    /\ \E r \in MonthRows(1) :
          r.fare = Num(50) /\ r.sundayMode /\ r.workedHours = Num(2)
    /\ \E r \in PastRows(1) :
          r.fare = Num(50) /\ ~r.sundayMode /\ r.workedHours = Num(10)
    /\ payroll[1].fareTotal = Num(50)
    /\ Cardinality(RowsOf(attendance, 1)) = 2

\* the rows a selection of the engine holds
Selected(rows) == {rows[i] : i \in DOMAIN rows}

\* the employee row the engine maps over
EmpRow(e) == [id |-> e, salary |-> employees[e]]

\* C6: an advance counts in advancePaid of the queried month M iff its
\* effective month (deductionMonth, else the month of its date) is M, and in
\* the past deductions of previousBalance(M) iff its effective month is
\* before M, whatever its date is
C6_EffectiveMonth ==
    \A e \in Stated :
        /\ Selected(EmpAdv(Rows(advances), EmpRow(e), queryMonth)) = MonthAdvances(e)
        /\ Selected(PastAdv(Rows(advances), EmpRow(e), queryMonth)) = PastAdvances(e)
        /\ payroll[e].advancePaid = AmountsOf(MonthAdvances(e), advances)
        /\ payroll[e].previousBalance =
              BalanceOf(e, [r \in PastRows(e) |-> HourlyPay(r, e)])

\* an advance given on 2024-11-30 with deductionMonth 2025-01 counts in the
\* advance total of January 2025 and not in its past deductions
C6_Witness ==
    /\ queryMonth = <<2025, 1>>
    /\ \E a \in MonthAdvances(1) :
          a.date = <<2024, 11, 30>> /\ a.deductionMonth = <<2025, 1>>
    /\ PastAdvances(1) = {}
    /\ payroll[1].advancePaid = Num(500)
    /\ payroll[1].previousBalance = Num(0)

\* C7: previousBalance = round(pastEarnings - pastDeductions - pastPayments):
\* the day pay (by hours, as the engine credits it) plus fare of the rows
\* dated before the first day of M, less the advances of an effective month
\* before M, less the payments of a salaryMonth before M; nothing of M or later
C7_PreviousBalance ==
    \A e \in Stated :
        payroll[e].previousBalance =
            Round(Sub(Sub(Add(SumOver(PastRows(e), attendance,
                                      [r \in PastRows(e) |-> HourlyPay(r, e)]),
                              SumOver(PastRows(e), attendance,
                                      [r \in PastRows(e) |-> r.fare])),
                          SumOver(PastAdvances(e), advances,
                                  [a \in PastAdvances(e) |-> a.amount])),
                      SumOver(PastPayments(e), payments,
                              [q \in PastPayments(e) |-> q.amount])))

\* an attendance row, an advance and a payment before the month
C7_Witness ==
    /\ queryMonth = <<2025, 1>>
    /\ PastRows(1) # {} /\ PastAdvances(1) # {} /\ PastPayments(1) # {}
    /\ payroll[1].previousBalance # Num(0)

\* the month after m
NextMonth(m) == IF m[2] = 12 THEN <<m[1] + 1, 1>> ELSE <<m[1], m[2] + 1>>

\* previousBalance of the employee for another month, on the same store
PreviousBalanceIn(e, month) ==
    ComputePayroll(employees, Rows(attendance), Rows(advances), Rows(payments),
                   GetSettings(settings), month)[e].previousBalance

NoActivity(e) == MonthRows(e) = {} /\ MonthAdvances(e) = {} /\ MonthPayments(e) = {}

\* C8: an employee without attendance, advance or payment of the month M has
\* in M+1 the previousBalance of M, across the end of the year too
C8_CarryForward ==
    \A e \in Stated :
        NoActivity(e) =>
            PreviousBalanceIn(e, NextMonth(queryMonth)) = payroll[e].previousBalance

\* December 2024 without activity after work in November: the balance is
\* carried into January 2025
C8_Witness ==
    /\ queryMonth = <<2024, 12>>
    /\ NoActivity(1)
    /\ PastRows(1) # {}
    /\ payroll[1].previousBalance # Num(0)
    /\ PreviousBalanceIn(1, <<2025, 1>>) = payroll[1].previousBalance

\* C9: finalPayable = round(currentMonthNet + previousBalance) with
\* currentMonthNet the unrounded pay of the month plus fares less advances,
\* and remainingDue = finalPayable - paidTotal, negative when overpaid
C9_FinalPayable ==
    \A e \in Stated :
        LET currentMonthNet ==
                Sub(Add(SumOver(MonthRows(e), attendance,
                                [r \in MonthRows(e) |-> HourlyPay(r, e)]),
                        payroll[e].fareTotal),
                    payroll[e].advancePaid)
        IN  /\ payroll[e].finalPayable =
                  Round(Add(currentMonthNet, payroll[e].previousBalance))
            /\ payroll[e].remainingDue =
                  Sub(payroll[e].finalPayable, payroll[e].paidTotal)
            /\ Gt(payroll[e].paidTotal, payroll[e].finalPayable) =>
                  Lt(payroll[e].remainingDue, Num(0))

\* one day of 2 hours at salary 850 and 8.5 standard hours (200) and a payment
\* of 1000 for the month: remainingDue = -800
C9_Witness ==
    /\ queryMonth = <<2024, 12>>
    /\ payroll[1].finalPayable = Num(200)
    /\ payroll[1].paidTotal = Num(1000)
    /\ payroll[1].remainingDue = Num(-800)

\* C10: status is "Settled" iff remainingDue <= 0, "Partial" iff remainingDue
\* > 0 and paidTotal > 0, "Unpaid" iff remainingDue > 0 and paidTotal = 0,
\* paidTotal being the sum of the payments for the queried month
C10_Status ==
    \A e \in Stated :
        LET due  == payroll[e].remainingDue
            paid == payroll[e].paidTotal
        IN  /\ paid = AmountsOf(MonthPayments(e), payments)
            /\ payroll[e].status \in {"Settled", "Partial", "Unpaid"}
            /\ payroll[e].status = "Settled" <=> Leq(due, Num(0))
            /\ payroll[e].status = "Partial" <=> (Gt(due, Num(0)) /\ Gt(paid, Num(0)))
            /\ payroll[e].status = "Unpaid" <=> (Gt(due, Num(0)) /\ paid = Num(0))

\* a slab day of 10 hours with fare 50 (1113) and a payment of 1000: 113 is
\* left to pay and the status is "Partial"
C10_Witness ==
    /\ queryMonth = <<2024, 12>>
    /\ payroll[1].paidTotal = Num(1000)
    /\ payroll[1].remainingDue = Num(113)
    /\ payroll[1].status = "Partial"

\* the amount due before rounding: the pay of the month plus fares less
\* advances, plus previousBalance
UnroundedDue(e) ==
    Add(Sub(Add(SumOver(MonthRows(e), attendance,
                        [r \in MonthRows(e) |-> HourlyPay(r, e)]),
                FaresOf(MonthRows(e))),
            AmountsOf(MonthAdvances(e), advances)),
        BalanceOf(e, [r \in PastRows(e) |-> HourlyPay(r, e)]))

\* x is nearer than half a unit to the whole number y
WithinHalf(x, y) ==
    y[2] = 1 /\ Lt(Sub(y, Rat(1, 2)), x) /\ Lt(x, Add(y, Rat(1, 2)))

\* C11: when paidTotal is a whole number and the unrounded amount due differs
\* from it by less than half a unit in either direction, remainingDue = 0 and
\* the status is "Settled"
C11_RoundingBoundary ==
    \A e \in Stated :
        WithinHalf(UnroundedDue(e), payroll[e].paidTotal) =>
            /\ payroll[e].remainingDue = Num(0)
            /\ payroll[e].status = "Settled"

\* 2 hours at salary 800 and 8.5 standard hours are 188.24 and 188 were paid:
\* 0.24 is left before rounding, and the statement is settled
C11_Witness ==
    /\ statusCode = 200 /\ queryMonth = <<2024, 12>>
    /\ Salary(1) = Num(800) /\ Std = Rat(17, 2)
    /\ UnroundedDue(1) = Rat(3200, 17)
    /\ payroll[1].paidTotal = Num(188)
    /\ payroll[1].remainingDue = Num(0)
    /\ payroll[1].status = "Settled"

\* salary 900, 9 standard and 6 slab hours, twenty days of 9 hours in January
\* 2025 without slab mode or fare and nothing earlier, one advance of 2000
\* deducted in January, no payment
JanuaryScenario ==
    /\ statusCode = 200 /\ queryMonth = <<2025, 1>>
    /\ Salary(1) = Num(900) /\ Std = Num(9) /\ Slab = Num(6)
    /\ BagCardinality(attendance) = 20
    /\ Cardinality(MonthRows(1)) = 20
    /\ \A r \in MonthRows(1) :
          r.workedHours = Num(9) /\ ~r.slabMode /\ ~r.sundayMode /\ r.fare = Num(0)
    /\ BagCardinality(advances) = 1
    /\ \A a \in BagToSet(advances) :
          a.employeeId = 1 /\ a.amount = Num(2000) /\ a.deductionMonth = <<2025, 1>>
    /\ payments = EmptyBag

\* C12: the January scenario gives daysWorked 20, salaryEarned 18000,
\* currentMonthNet 16000, previousBalance 0, finalPayable 16000, remainingDue
\* 16000 and status "Unpaid"
C12_JanuaryStatement ==
    JanuaryScenario =>
        /\ payroll[1].daysWorked = 20
        /\ payroll[1].salaryEarned = Num(18000)
        /\ payroll[1].currentMonthNet = Num(16000)
        /\ payroll[1].previousBalance = Num(0)
        /\ payroll[1].finalPayable = Num(16000)
        /\ payroll[1].remainingDue = Num(16000)
        /\ payroll[1].status = "Unpaid"

\* the scenario with the advance handed over on 2024-12-28
C12_Witness ==
    /\ JanuaryScenario
    /\ \E a \in BagToSet(advances) : a.date = <<2024, 12, 28>>
    /\ payroll[1].advancePaid = Num(2000)
    /\ payroll[1].finalPayable = Num(16000)

\* C13: the payroll result holds exactly one statement per employee of the
\* system, employees without any record of the month included
C13_OneStatementPerEmployee ==
    statusCode = 200 =>
        /\ DOMAIN payroll = DOMAIN employees
        /\ \A e \in DOMAIN payroll :
              payroll[e].employee = [id |-> e, salary |-> employees[e]]

\* two employees, one with a day of work in the month and one without any
\* record, and a statement for each
C13_Witness ==
    /\ statusCode = 200
    /\ DOMAIN employees = {1, 2}
    /\ MonthRows(1) # {}
    /\ HasNoRecords(2)
    /\ DOMAIN payroll = {1, 2}
    /\ payroll[2].daysWorked = 0

\* the statement list computed from the store as it is
Computed(month) ==
    ComputePayroll(employees, Rows(attendance), Rows(advances), Rows(payments),
                   GetSettings(settings), month)

C15_QueryFrame ==
    [][statusCode' # 0 =>
          /\ UNCHANGED store
          /\ statusCode' = 200 => payroll' = Computed(queryMonth')]_vars

\* a query answered over a store that holds an employee, a record and
\* settings written by a request
C15_Witness ==
    /\ statusCode = 200
    /\ DOMAIN employees # {}
    /\ Records = 1
    /\ settings # DefaultSettings
    /\ payroll = Computed(queryMonth)

\* C18: the stored standardHours and slabHours are never zero (a Settings
\* write with a zero is rejected and leaves the stored Settings as they were)
C18_SettingsNonZero ==
    /\ settings.standardHours # Num(0)
    /\ settings.slabHours # Num(0)

\* the monetary fields of a statement
MoneyFields ==
    {"salaryEarned", "fareTotal", "advancePaid", "previousBalance",
     "currentMonthNet", "finalPayable", "paidTotal", "remainingDue"}

\* every monetary field of the statement is a number
AllNumbers(e) == \A f \in MoneyFields : IsFinite(payroll[e][f])

\* a stored numeric field, 0 when it holds no number
NumberOrZero(v) == IF v = NoValue THEN Num(0) ELSE v

\* the hours in effect: the stored ones, 8.5 and 6 where none is stored
HoursInEffect == GetSettings(settings)

\* the pay by hours of a day, 0 when the salary or the hours are no number
PayOrZero(r, e) ==
    IF employees[e] = NoValue \/ r.workedHours = NoValue THEN Num(0)
    ELSE LET std  == StdHours(HoursInEffect)
             slab == SlabBase(HoursInEffect)
         IN  IF r.slabMode /\ Gt(r.workedHours, std)
             THEN Add(Mul(Div(employees[e], std), std),
                      Mul(Div(employees[e], slab), Sub(r.workedHours, std)))
             ELSE Mul(Div(employees[e], std), r.workedHours)

\* the employee's rows of the queried month, rows without date or month
\* belonging to no month
DatedRows(e) ==
    {r \in RowsOf(attendance, e) : r.date # NoValue /\ DatedIn(r.date, queryMonth)}

DatedPayments(e) == {q \in RowsOf(payments, e) : q.salaryMonth = queryMonth}

\* C16: a record with a non-numeric salary, workedHours or amount counts 0 in
\* every total, the other records count as usual, and every monetary field
\* of every statement is a number
C16_MalformedCountsZero ==
    \A e \in Stated :
        /\ AllNumbers(e)
        /\ payroll[e].salaryEarned =
              Round(SumOver(DatedRows(e), attendance,
                            [r \in DatedRows(e) |-> PayOrZero(r, e)]))
        /\ payroll[e].fareTotal =
              SumOver(DatedRows(e), attendance,
                      [r \in DatedRows(e) |-> NumberOrZero(r.fare)])
        /\ payroll[e].advancePaid =
              SumOver(MonthAdvances(e), advances,
                      [a \in MonthAdvances(e) |-> NumberOrZero(a.amount)])
        /\ payroll[e].paidTotal =
              SumOver(DatedPayments(e), payments,
                      [q \in DatedPayments(e) |-> NumberOrZero(q.amount)])

\* C17: a query with a well-formed month is answered with a complete
\* statement list, one statement per employee, whatever field of a record is
\* missing
C17_AlwaysAStatementList ==
    statusCode # 0 => statusCode = 200 /\ DOMAIN payroll = DOMAIN employees

\* C19: with stored standardHours = 0 or slabHours = 0 no amount is NaN or
\* Infinity, the pay of the affected days is reported as 0 and the statement
\* is flagged
C19_ZeroHoursPayZero ==
    \A e \in Stated :
        settings # NoValue =>
            /\ (settings.standardHours = Num(0) /\ DatedRows(e) # {}) =>
                  /\ payroll[e].salaryEarned = Num(0)
                  /\ "flagged" \in DOMAIN payroll[e]
            /\ (/\ settings.slabHours = Num(0)
                /\ \E r \in DatedRows(e) :
                      /\ r.slabMode /\ r.workedHours # NoValue
                      /\ Gt(r.workedHours, StdHours(HoursInEffect))) =>
                  "flagged" \in DOMAIN payroll[e]

\* the settings row with 8.5 and 6 in the place of what is absent
Completed ==
    IF settings = NoValue THEN [standardHours |-> Rat(17, 2), slabHours |-> Num(6)]
    ELSE [standardHours |-> IF settings.standardHours = NoValue
                            THEN Rat(17, 2) ELSE settings.standardHours,
          slabHours     |-> IF settings.slabHours = NoValue
                            THEN Num(6) ELSE settings.slabHours]

SettingsAbsent ==
    \/ settings = NoValue
    \/ settings.standardHours = NoValue
    \/ settings.slabHours = NoValue

\* C20: without a settings row, or with a settings field absent, the result
\* is the one computed with 8.5 standard hours and 6 slab hours stored
C20_DefaultSettings ==
    (statusCode = 200 /\ SettingsAbsent) =>
        payroll = ComputePayroll(employees, Rows(attendance), Rows(advances),
                                 Rows(payments), Completed, queryMonth)

\* no settings row, salary 850 and a day of 2 hours: 850 / 8.5 * 2 = 200
C20_Witness ==
    /\ statusCode = 200 /\ queryMonth = <<2024, 12>>
    /\ settings = NoValue
    /\ employees[1] = Num(850)
    /\ \E r \in RowsOf(attendance, 1) : r.workedHours = Num(2) /\ r.date = <<2024, 12, 1>>
    /\ payroll[1].salaryEarned = Num(200)

\* the attendance rows of an employee and date, each as often as stored
RecordsOn(employeeId, date) ==
    {r \in BagToSet(attendance) : r.employeeId = employeeId /\ r.date = date}

\* C21: the attendance table holds at most one record per employee and date
C21_OneRecordPerDay ==
    \A r \in BagToSet(attendance) :
        /\ CopiesIn(r, attendance) = 1
        /\ RecordsOn(r.employeeId, r.date) = {r}

\* the only request in flight is a POST just received for an employee and
\* date that have a record
LoneDuplicatePost(q) ==
    /\ inflight = SetToBag({q})
    /\ q.stage = "received"
    /\ RecordsOn(q.body.employeeId, q.body.date) # {}

\* C22: a POST /api/attendance for an employee and date that have a record,
\* with no other request in flight, is answered 400, inserts nothing and
\* leaves the attendance records as they are
C22_DuplicateRejected ==
    [][\A q \in BagToSet(inflight) :
          (LoneDuplicatePost(q) /\ ~BagIn(q, inflight')) =>
              /\ statusCode' = 400
              /\ attendance' = attendance
              /\ inflight' = EmptyBag]_vars

\* a request was answered 400 with the record it duplicates in the table
C22_Witness ==
    /\ statusCode = 400
    /\ inflight = EmptyBag
    /\ BagCardinality(attendance) = 1
    /\ RecordsOn(1, <<2024, 12, 1>>) # {}

\* the employee ids the rows of the three tables reference
Referenced ==
    {r.employeeId : r \in BagToSet(attendance) \cup BagToSet(advances)
                              \cup BagToSet(payments)}

Owned(table) ==
    SelectSeq(Rows(table), LAMBDA r : r.employeeId \in DOMAIN employees)

\* C24: rows whose employeeId matches no employee contribute to no field of
\* any statement: the response is the statement list of the store without
\* them
C24_OrphansIgnored ==
    queryMonth # <<>> =>
        /\ statusCode = 200
        /\ payroll = ComputePayroll(employees, Owned(attendance), Owned(advances),
                                    Owned(payments), GetSettings(settings),
                                    queryMonth)

\* a query of December over an attendance row and a payment of December
\* that have no employee, next to a row of employee 1
C24_Witness ==
    /\ statusCode = 200
    /\ queryMonth = <<2024, 12>>
    /\ \E a \in BagToSet(attendance) : a.employeeId = 2 /\ a.date = <<2024, 12, 1>>
    /\ \E p \in BagToSet(payments) : p.employeeId = 2 /\ p.salaryMonth = <<2024, 12>>
    /\ 1 \in Referenced

\* C25: after an update of the settings or of the salary, a payroll query
\* prices all attendance before the month with the standardHours, slabHours
\* and salary stored now, not with those in effect when it was recorded
C25_CurrentValuesPriceHistory ==
    \A e \in Stated :
        payroll[e].previousBalance =
            BalanceOf(e, [r \in PastRows(e) |-> HourlyPay(r, e)])

\* a slab day of 10 hours recorded in December at salary 800 and 8.5 / 6
\* hours, queried in January after the salary became 850 and the settings
\* 9 / 8 hours: 850 + (850 / 8) * 1 = 956.25 and the fare
C25_Witness ==
    /\ statusCode = 200
    /\ queryMonth = <<2025, 1>>
    /\ employees[1] = Num(850)
    /\ settings = [standardHours |-> Num(9), slabHours |-> Num(8)]
    /\ \E r \in PastRows(1) :
          /\ r.slabMode /\ r.workedHours = Num(10)
          /\ payroll[1].previousBalance = Round(Add(Rat(3825, 4), r.fare))

\* a whole number
IsWhole(x) == IsFinite(x) /\ x[2] = 1

\* the day pays, fares, advance amounts and payment amounts of the employee
\* are whole numbers
WholeAmounts(e) ==
    /\ \A r \in RowsOf(attendance, e) : IsWhole(HourlyPay(r, e)) /\ IsWhole(r.fare)
    /\ \A a \in RowsOf(advances, e) : IsWhole(a.amount)
    /\ \A q \in RowsOf(payments, e) : IsWhole(q.amount)

\* C26: when all day pays, fares, advances and payments of an employee are
\* whole numbers, previousBalance of the month after M is remainingDue of M
C26_BalanceChain ==
    \A e \in Stated :
        WholeAmounts(e) =>
            PreviousBalanceIn(e, NextMonth(queryMonth)) = payroll[e].remainingDue

\* December 2024 with a day of 2 hours, an advance given in December and
\* deducted in January, and a payment: what is left is carried into January
C26_Witness ==
    /\ queryMonth = <<2024, 12>>
    /\ statusCode = 200
    /\ WholeAmounts(1)
    /\ MonthRows(1) # {}
    /\ \E a \in RowsOf(advances, 1) :
          a.date = <<2024, 12, 1>> /\ a.deductionMonth = <<2025, 1>>
    /\ MonthPayments(1) # {}
    /\ payroll[1].remainingDue # Num(0)
    /\ PreviousBalanceIn(1, <<2025, 1>>) = payroll[1].remainingDue

\* C27: no attendance, advance or payment row of an employee is counted both
\* in the totals of the queried month and in its previousBalance
C27_NeverInBoth ==
    \A e \in Stated :
        /\ Selected(EmpAtt(Rows(attendance), EmpRow(e), queryMonth))
              \cap Selected(PastAtt(Rows(attendance), EmpRow(e), queryMonth)) = {}
        /\ Selected(EmpAdv(Rows(advances), EmpRow(e), queryMonth))
              \cap Selected(PastAdv(Rows(advances), EmpRow(e), queryMonth)) = {}
        /\ Selected(EmpPay(Rows(payments), EmpRow(e), queryMonth))
              \cap Selected(PastPay(Rows(payments), EmpRow(e), queryMonth)) = {}

\* C28: the server's current-month loop, its past-earnings loop, the
\* attendance table and the payslip detail give every attendance row the
\* same day pay
C28_SameDayPay ==
    \A e \in Stated :
        \A r \in RowsOf(attendance, e) :
            LET stdHours == StdHours(GetSettings(settings))
                slabBase == SlabBase(GetSettings(settings))
                server   == DailySalary(r, EmpRow(e), stdHours, slabBase)
            IN  /\ PastDailySalary(r, EmpRow(e), stdHours, slabBase) = server
                /\ ComputedPay(r, EmpRow(e), stdHours, slabBase) = server
                /\ DayPay(r, EmpRow(e), stdHours, slabBase) = server

\* the statement list of a month computed from a store
PayrollOf(st, month) ==
    ComputePayroll(st[1], Rows(st[2]), Rows(st[3]), Rows(st[4]),
                   GetSettings(st[5]), month)

\* C29: a payroll query that a write interleaves with answers the statement
\* list of the store as it was before the write or as it is after it
C29_BeforeOrAfter ==
    (inflight # <<>> /\ statusCode = 200) =>
        \/ payroll = PayrollOf(inflight.before, queryMonth)
        \/ payroll = PayrollOf(store, queryMonth)

\* the outcomes of the attempts before the last one
Earlier(os) == {os[k] : k \in 1..(Len(os) - 1)}

\* the errors of the network and of timeouts
NetworkErrors ==
    {[ok |-> FALSE, message |-> m] :
        m \in { <<"fetch failed">>, <<"network", "error">>,
                <<"request", "timeout">>, <<"read", "ECONNRESET">> }}

\* what a call of the helper has done so far is within the contract
RetryContract(r) ==
    LET os == r.outcomes
    IN  /\ Len(os) <= r.maxRetries
        /\ Len(os) <= (IF r.call = "uploadFile" THEN 2 ELSE 3)
        /\ Earlier(os) \subseteq NetworkErrors
        /\ r.pc = "returned" => os # <<>> /\ os[Len(os)].ok /\ r.result = os[Len(os)]
        /\ r.pc = "thrown" =>
              /\ os # <<>> /\ ~os[Len(os)].ok /\ r.result = os[Len(os)]
              /\ os[Len(os)] \in NetworkErrors => Len(os) = r.maxRetries
        /\ r.pc \in {"loop", "wait"} => Selected(os) \subseteq NetworkErrors

\* C30: the retry helper invokes the operation at most maxRetries times (2
\* for uploadFile, 3 for every other call), returns the first success,
\* rethrows at once an error that is not a network error, throws the last
\* error after maxRetries network errors, and always terminates
C30_RetryTerminates ==
    /\ [](inflight # <<>> => RetryContract(inflight))
    /\ (inflight # <<>>) ~> RetrySettled

\* uploadFile has thrown the second of two network errors
C30_Witness ==
    /\ inflight # <<>>
    /\ inflight.call = "uploadFile"
    /\ inflight.pc = "thrown"
    /\ Len(inflight.outcomes) = 2
    /\ inflight.result = [ok |-> FALSE, message |-> <<"request", "timeout">>]

====
